---- MODULE Spec2Model ----
(***************************************************************************)
(* Model of the DnD character NFT backend:                                 *)
(*   - the DnDCharacterNFT ledger contract (mint, evolveCharacter,         *)
(*     gainExperience, advanceSeason, setSeasonalPower, ERC721 transfer),  *)
(*   - CharacterService.createCharacter, the creation saga,                *)
(*   - the gameplay path GameService -> CharacterService.gainExperience    *)
(*     -> WalletService.invokeContract,                                    *)
(*   - CharacterService.getCharactersByOwner, the registry scan,           *)
(*   - the createCharacter handlers of the two controllers,                *)
(*   - Container.initialize.                                               *)
(***************************************************************************)
EXTENDS Integers, Sequences, FiniteSets, TLC

(***************************************************************************)
(* Bounds of the model.                                                    *)
(***************************************************************************)
\* number of createCharacter calls that may be in flight together
NumCalls == 2
\* cap on the token counter _tokenIds (mint and evolveCharacter are not
\* taken once it is reached)
MaxSupply == 2
\* cap on currentSeason (advanceSeason is not taken once it is reached)
MaxSeason == 2
\* scaled stand-in for type(uint256).max: checked arithmetic of Solidity
\* ^0.8.20 reverts when a result exceeds it
UintMax == 5500

(***************************************************************************)
(* Program constants.                                                      *)
(***************************************************************************)
XP_PER_LEVEL == 1000
EVOLUTION_THRESHOLD == 5

\* Ownable(msg.sender): the deployer, which is the custodial signer
ContractOwner == "0xSigner"
\* a contract account that does not implement onERC721Received
NonReceiver == "0xC0de"
Accounts == {ContractOwner, "0xA", "0xB", NonReceiver}
\* accounts that send transactions to the contract
Senders == {ContractOwner, "0xA"}

TokenIds == 1..MaxSupply
Seasons == 1..MaxSeason

\* inputs of the ledger transactions
StatInputs == {<<16, 12, 14, 10, 10, 10>>}
EvolveStatInputs == {<<20, 21, 22, 23, 24, 25>>}
MintTo == {"0xA", NonReceiver}
TransferTo == {NonReceiver}
XpAmounts == {0, 2500}
\* amounts granted to the tokens that are put up for evolution
TrainingAmounts == {2000}
PowerInputs == {7}
\* amounts granted around an evolution: 4000 makes a token eligible
RetirementAmounts == {1000, 4000}
\* tokens whose seasonal power is set
PowerTokens == {1}
UriInputs == {<<"ipfs", "direct", 0>>}

VARIABLES
    tokenIds,          \* _tokenIds
    currentSeason,     \* currentSeason
    tokenExists,       \* _tokenExists
    characters,        \* characters
    seasonalPower,     \* seasonalPower[tokenId][season]
    playerCharacters,  \* playerCharacters[address]
    owners,            \* ERC721 _owners (ownerOf)
    tokenURIs,         \* ERC721URIStorage _tokenURIs
    retired,           \* tokenId of every CharacterEvolved event emitted so far
    lastTx,            \* outcome of the latest transaction sent to the contract
    pc,                \* createCharacter: position of each call
    req,               \* createCharacter: (playerAddress, characterClass)
    callLog,           \* collaborator operations each call has invoked, in order
    succeeded,         \* collaborator operations that returned to each call
    baseStats,         \* createCharacter: baseStats
    imageUri,          \* createCharacter: imageUri
    metadataUri,       \* createCharacter: metadataUri
    mintedId,          \* token created by the mint transaction of each call
    result,            \* value each call resolved with
    error,             \* error each call rejected with
    pinned,            \* content pinned in content storage
    metadata,          \* createCharacter: metadata
    game,              \* outcome of the latest GameService action
    scan,              \* getCharactersByOwner: the call in progress
    http,              \* request body and response status of each POST /characters
    container          \* Container.state, TypeDI's registry, each initialize call

ledgerVars == <<tokenIds, currentSeason, tokenExists, characters,
                seasonalPower, playerCharacters, owners, tokenURIs, retired>>

sagaVars == <<pc, req, callLog, succeeded, baseStats, imageUri, metadataUri,
              mintedId, result, error, pinned, metadata>>

vars == <<tokenIds, currentSeason, tokenExists, characters, seasonalPower,
          playerCharacters, owners, tokenURIs, retired, lastTx, pc, req, callLog,
          succeeded, baseStats, imageUri, metadataUri, mintedId, result,
          error, pinned, metadata,
                   game, scan, http, container>>

\* default value of mapping(uint256 => Character)
ZeroCharacter ==
    [strength |-> 0, dexterity |-> 0, constitution |-> 0, intelligence |-> 0,
     wisdom |-> 0, charisma |-> 0, experience |-> 0, level |-> 0,
     seasonId |-> 0, evolved |-> FALSE]

NoOwner == "0x0"
NoUri == <<>>

\* _exists(tokenId)
Exists(tokenId) == tokenId \in TokenIds /\ tokenExists[tokenId]

\* ownerOf(tokenId): reverts for a token without owner
OwnerOf(tokenId) == owners[tokenId]

\* _safeMint's receiver check: a contract recipient must implement
\* onERC721Received, the zero address is rejected
CanReceive(account) == account \notin {NonReceiver, NoOwner}

\* the Character struct written by mint
NewCharacter(stats, season) ==
    [strength |-> stats[1], dexterity |-> stats[2], constitution |-> stats[3],
     intelligence |-> stats[4], wisdom |-> stats[5], charisma |-> stats[6],
     experience |-> 0, level |-> 1, seasonId |-> season, evolved |-> FALSE]

\* evolveCharacter reading two entries of newStats in each other's place
EvolvedCharacterSwapped(newStats, season) ==
    [strength |-> newStats[1], dexterity |-> newStats[3],
     constitution |-> newStats[2], intelligence |-> newStats[4],
     wisdom |-> newStats[5], charisma |-> newStats[6],
     experience |-> 0, level |-> 1, seasonId |-> season, evolved |-> TRUE]

\* the Character struct written by evolveCharacter for the new token
EvolvedCharacter(newStats, season) ==
    [strength |-> newStats[1], dexterity |-> newStats[2],
     constitution |-> newStats[3], intelligence |-> newStats[4],
     wisdom |-> newStats[5], charisma |-> newStats[6],
     experience |-> 0, level |-> 1, seasonId |-> season, evolved |-> TRUE]

\* evolveCharacter leaving the source token's flag as it was
RetireSourceForgotten(character) == character

\* evolveCharacter clearing the source token's record when it retires it
RetireSourceCleared(character) == [ZeroCharacter EXCEPT !.evolved = TRUE]

\* characters[tokenId].evolved = true
RetireSource(character) == [character EXCEPT !.evolved = TRUE]

\* evolveCharacter without its level requirement
EvolveRequireNoLevel(tokenId) ==
    IF ~Exists(tokenId) THEN "Character does not exist"
    ELSE IF characters[tokenId].evolved THEN "Character already evolved"
    ELSE ""

\* the three require statements of evolveCharacter, in order;
\* "" when all pass
EvolveRequire(tokenId) ==
    IF ~Exists(tokenId) THEN "Character does not exist"
    ELSE IF characters[tokenId].evolved THEN "Character already evolved"
    ELSE IF ~(characters[tokenId].level >= EVOLUTION_THRESHOLD)
         THEN "Level too low for evolution"
    ELSE ""

\* character.experience = amount
AddExperienceAssign(experience, amount) == amount

\* character.experience += amount in unchecked arithmetic
AddExperienceWrapping(experience, amount) == (experience + amount) % (UintMax + 1)

\* character.experience += amount
AddExperience(experience, amount) == experience + amount

\* character.experience / XP_PER_LEVEL
LevelForNoBase(experience) == experience \div XP_PER_LEVEL

\* (character.experience / XP_PER_LEVEL) + 1
LevelFor(experience) == (experience \div XP_PER_LEVEL) + 1

\* if (newLevel > character.level) character.level = newLevel
LevelAfter(level, newLevel) == IF newLevel > level THEN newLevel ELSE level

\* a contract without the onlyOwner modifier
OnlyOwnerAnyone(sender) == TRUE

\* onlyOwner
OnlyOwner(sender) == sender = ContractOwner

NoEvents == {}
Event(name, tokenId, value) == [name |-> name, tokenId |-> tokenId, value |-> value]

\* a transaction that reverts: the whole ledger state is left as it was
Reverted(reason) ==
    /\ lastTx' = [ok |-> FALSE, error |-> reason, ret |-> 0, events |-> NoEvents]
    /\ UNCHANGED ledgerVars

\* a transaction that is mined: its return value and its events
Committed(ret, events) ==
    lastTx' = [ok |-> TRUE, error |-> "", ret |-> ret, events |-> events]

\* a counter stepping over an identifier
IncrementTwice(counter) == counter + 2

\* _tokenIds++
Increment(counter) == counter + 1

\* function mint(address player, uint256[6] stats, string tokenURI)
ContractMint(sender, player, stats, tokenURI) ==
    /\ IF ~OnlyOwner(sender)
       THEN Reverted("OwnableUnauthorizedAccount")
       ELSE IF ~CanReceive(player)
       THEN Reverted("ERC721InvalidReceiver")
       ELSE LET newTokenId == Increment(tokenIds)
                newCharacter == NewCharacter(stats, currentSeason) IN
            /\ tokenIds < MaxSupply
            /\ tokenIds' = newTokenId
            /\ tokenExists' = [tokenExists EXCEPT ![newTokenId] = TRUE]
            /\ characters' = [characters EXCEPT ![newTokenId] = newCharacter]
            /\ playerCharacters' =
                   [playerCharacters EXCEPT ![player] = Append(@, newTokenId)]
            /\ owners' = [owners EXCEPT ![newTokenId] = player]
            /\ tokenURIs' = [tokenURIs EXCEPT ![newTokenId] = tokenURI]
            /\ UNCHANGED <<currentSeason, seasonalPower, retired>>
            /\ Committed(newTokenId,
                         {Event("CharacterMinted", newTokenId, 0)})

\* function evolveCharacter(uint256 tokenId, uint256[6] newStats, string newTokenURI)
ContractEvolveCharacter(sender, tokenId, newStats, newTokenURI) ==
    /\ IF ~OnlyOwner(sender)
       THEN Reverted("OwnableUnauthorizedAccount")
       ELSE IF EvolveRequire(tokenId) # ""
       THEN Reverted(EvolveRequire(tokenId))
       ELSE IF ~CanReceive(OwnerOf(tokenId))
       THEN Reverted("ERC721InvalidReceiver")
       ELSE LET evolvedTokenId == Increment(tokenIds)
                owner == OwnerOf(tokenId)
                evolvedCharacter == EvolvedCharacter(newStats, currentSeason) IN
            /\ tokenIds < MaxSupply
            /\ tokenIds' = evolvedTokenId
            /\ tokenExists' = [tokenExists EXCEPT ![evolvedTokenId] = TRUE]
            /\ characters' = [characters EXCEPT
                                 ![evolvedTokenId] = evolvedCharacter,
                                 ![tokenId] = RetireSource(@)]
            /\ playerCharacters' =
                   [playerCharacters EXCEPT ![owner] = Append(@, evolvedTokenId)]
            /\ owners' = [owners EXCEPT ![evolvedTokenId] = owner]
            /\ tokenURIs' = [tokenURIs EXCEPT ![evolvedTokenId] = newTokenURI]
            /\ retired' = retired \cup {tokenId}
            /\ UNCHANGED <<currentSeason, seasonalPower>>
            /\ Committed(evolvedTokenId,
                         {Event("CharacterEvolved", tokenId, evolvedTokenId)})

\* function gainExperience(uint256 tokenId, uint256 amount)
ContractGainExperience(sender, tokenId, amount) ==
    IF ~OnlyOwner(sender)
    THEN Reverted("OwnableUnauthorizedAccount")
    ELSE IF ~Exists(tokenId)
    THEN Reverted("Character does not exist")
    ELSE IF AddExperience(characters[tokenId].experience, amount) > UintMax
         \/ AddExperience(characters[tokenId].experience, amount) < 0
    THEN Reverted("Panic(0x11)")
    ELSE LET experience == AddExperience(characters[tokenId].experience, amount)
             newLevel == LevelFor(experience)
             level == LevelAfter(characters[tokenId].level, newLevel)
             levelUp == IF newLevel > characters[tokenId].level
                        THEN {Event("LevelUp", tokenId, newLevel)}
                        ELSE NoEvents IN
         /\ characters' = [characters EXCEPT ![tokenId].experience = experience,
                                             ![tokenId].level = level]
         /\ UNCHANGED <<tokenIds, currentSeason, tokenExists, seasonalPower,
                        playerCharacters, owners, tokenURIs, retired>>
         /\ Committed(0,
                      levelUp \cup {Event("ExperienceGained", tokenId, amount)})

\* an advanceSeason that skips a season
ContractAdvanceSeasonByTwo(sender) ==
    /\ IF ~OnlyOwner(sender)
       THEN Reverted("OwnableUnauthorizedAccount")
       ELSE /\ currentSeason < MaxSeason
            /\ currentSeason' = currentSeason + 2
            /\ UNCHANGED <<tokenIds, tokenExists, characters, seasonalPower,
                           playerCharacters, owners, tokenURIs, retired>>
            /\ Committed(0,
                         {Event("SeasonAdvanced", 0, currentSeason + 2)})

\* function advanceSeason()
ContractAdvanceSeason(sender) ==
    /\ IF ~OnlyOwner(sender)
       THEN Reverted("OwnableUnauthorizedAccount")
       ELSE /\ currentSeason < MaxSeason
            /\ currentSeason' = currentSeason + 1
            /\ UNCHANGED <<tokenIds, tokenExists, characters, seasonalPower,
                           playerCharacters, owners, tokenURIs, retired>>
            /\ Committed(0,
                         {Event("SeasonAdvanced", 0, currentSeason + 1)})

\* function setSeasonalPower(uint256 tokenId, uint256 power)
ContractSetSeasonalPower(sender, tokenId, power) ==
    IF ~OnlyOwner(sender)
    THEN Reverted("OwnableUnauthorizedAccount")
    ELSE IF ~Exists(tokenId)
    THEN Reverted("Character does not exist")
    ELSE /\ seasonalPower' = [seasonalPower EXCEPT ![tokenId][currentSeason] = power]
         /\ UNCHANGED <<tokenIds, currentSeason, tokenExists, characters,
                        playerCharacters, owners, tokenURIs, retired>>
         /\ Committed(0, NoEvents)

\* the result of a view call: the value returned, or the revert of a failed
\* arithmetic check
Returned(value) == [ok |-> TRUE, value |-> value, error |-> ""]
Panicked == [ok |-> FALSE, value |-> 0, error |-> "Panic(0x11)"]

\* power of a record with a seasonal bonus, as calculatePower computes it
\* (every intermediate result is checked against the width of uint256);
\* here without the doubling for evolved records
PowerOfNoDoubling(character, bonus) ==
    LET attributes == character.strength + character.dexterity
                      + character.constitution + character.intelligence
                      + character.wisdom + character.charisma
        basePower == attributes * character.level IN
    IF attributes > UintMax \/ basePower > UintMax \/ basePower + bonus > UintMax
    THEN Panicked
    ELSE Returned(basePower + bonus)

\* calculatePower doubling after the seasonal bonus was added
PowerOfBonusDoubled(character, bonus) ==
    LET attributes == character.strength + character.dexterity
                      + character.constitution + character.intelligence
                      + character.wisdom + character.charisma
        basePower == attributes * character.level + bonus
        evolvedPower == IF character.evolved THEN basePower * 2 ELSE basePower IN
    IF attributes > UintMax \/ basePower > UintMax \/ evolvedPower > UintMax
    THEN Panicked
    ELSE Returned(evolvedPower)

\* the body of calculatePower
PowerOf(character, bonus) ==
    LET attributes == character.strength + character.dexterity
                      + character.constitution + character.intelligence
                      + character.wisdom + character.charisma
        basePower == attributes * character.level
        evolvedPower == IF character.evolved THEN basePower * 2 ELSE basePower IN
    IF attributes > UintMax \/ basePower > UintMax \/ evolvedPower > UintMax
       \/ evolvedPower + bonus > UintMax
    THEN Panicked
    ELSE Returned(evolvedPower + bonus)

\* function calculatePower(uint256 tokenId) public view
CalculatePower(tokenId) ==
    PowerOf(characters[tokenId], seasonalPower[tokenId][currentSeason])

\* function getCharactersByPlayer(address player) external view
GetCharactersByPlayer(player) == playerCharacters[player]

\* a view call that reverts with a reason
ViewReverted(reason) == [ok |-> FALSE, value |-> 0, error |-> reason]

\* function getCharacter(uint256 tokenId) external view
ContractGetCharacter(tokenId) ==
    IF ~Exists(tokenId)
    THEN ViewReverted("Character does not exist")
    ELSE Returned(characters[tokenId])

\* ERC721.transferFrom(from, to, tokenId), sent by the token's owner
ContractTransferFrom(sender, to, tokenId) ==
    IF ~Exists(tokenId)
    THEN Reverted("ERC721NonexistentToken")
    ELSE IF OwnerOf(tokenId) # sender
    THEN Reverted("ERC721InsufficientApproval")
    ELSE /\ owners' = [owners EXCEPT ![tokenId] = to]
         /\ UNCHANGED <<tokenIds, currentSeason, tokenExists, characters,
                        seasonalPower, playerCharacters, tokenURIs, retired>>
         /\ Committed(0,
                      {Event("Transfer", tokenId, 0)})

LedgerInit ==
    /\ tokenIds = 0
    /\ currentSeason = 1
    /\ tokenExists = [t \in TokenIds |-> FALSE]
    /\ characters = [t \in TokenIds |-> ZeroCharacter]
    /\ seasonalPower = [t \in TokenIds |-> [s \in Seasons |-> 0]]
    /\ playerCharacters = [a \in Accounts |-> <<>>]
    /\ owners = [t \in TokenIds |-> NoOwner]
    /\ tokenURIs = [t \in TokenIds |-> NoUri]
    /\ retired = {}
    /\ lastTx = [ok |-> TRUE, error |-> "", ret |-> 0, events |-> NoEvents]

(***************************************************************************)
(* CharacterService.createCharacter                                        *)
(***************************************************************************)
Calls == 1..NumCalls

\* enum CharacterClass
CharacterClass == {"warrior", "mage", "rogue", "cleric", "bard"}

\* inputs of createCharacter
ClassInputs == {"warrior", "mage"}
PlayerInputs == {"0xA", NonReceiver}

\* Math.random() is drawn as r / RandomScale with r in 0..RandomScale-1,
\* one draw per attribute
RandomScale == 100
RandomDraws == {<<0, 50, 99, 0, 50, 99>>}
\* the draws generateBaseStats is rolled with on its own
DrawValues == {0, 25, 50, 75, 99}
AllDraws == {<<a, b, c, d, e, f>> : a \in DrawValues, b \in DrawValues,
                                  c \in DrawValues, d \in DrawValues,
                                  e \in DrawValues, f \in DrawValues}

\* key order of the maxStats object literals (Object.entries order)
StatNames == <<"strength", "dexterity", "constitution", "intelligence",
               "wisdom", "charisma">>

maxStats ==
    [warrior |-> [strength |-> 16, dexterity |-> 12, constitution |-> 14,
                  intelligence |-> 8, wisdom |-> 10, charisma |-> 10],
     mage    |-> [strength |-> 8, dexterity |-> 12, constitution |-> 10,
                  intelligence |-> 16, wisdom |-> 14, charisma |-> 10],
     rogue   |-> [strength |-> 10, dexterity |-> 16, constitution |-> 12,
                  intelligence |-> 12, wisdom |-> 10, charisma |-> 14],
     cleric  |-> [strength |-> 12, dexterity |-> 10, constitution |-> 14,
                  intelligence |-> 10, wisdom |-> 16, charisma |-> 12],
     bard    |-> [strength |-> 10, dexterity |-> 14, constitution |-> 12,
                  intelligence |-> 12, wisdom |-> 10, charisma |-> 16]]

MIN_STAT == 10

Max(a, b) == IF a >= b THEN a ELSE b

\* generateBaseStats without the loop that clamps the ceilings
ClassMaxStatsNoClamp(characterClass) == maxStats[characterClass]

\* classMaxStats[stat] = Math.max(classMaxStats[stat], MIN_STAT)
ClassMaxStats(characterClass) ==
    [stat \in DOMAIN maxStats[characterClass] |->
        Max(maxStats[characterClass][stat], MIN_STAT)]

\* Math.floor(Math.random() * (maxValue - MIN_STAT + 1)) + MIN_STAT
RollStat(maxValue, r) == ((r * (maxValue - MIN_STAT + 1)) \div RandomScale) + MIN_STAT

\* generateBaseStats(characterClass), with the six random draws made explicit
GenerateBaseStats(characterClass, draws) ==
    [stat \in DOMAIN ClassMaxStats(characterClass) |->
        LET i == CHOOSE k \in 1..6 : StatNames[k] = stat IN
        RollStat(ClassMaxStats(characterClass)[stat], draws[i])]

\* const stats = [baseStats.strength, ..., baseStats.charisma]
StatsArray(stats) ==
    <<stats.strength, stats.dexterity, stats.constitution,
      stats.intelligence, stats.wisdom, stats.charisma>>

\* n.toString() of a non-negative integer: its decimal digits
RECURSIVE NumberToString(_)
NumberToString(n) ==
    IF n < 10 THEN <<n>> ELSE Append(NumberToString(n \div 10), n % 10)

\* the uint256 the ledger client decodes from a decimal string
RECURSIVE UintFromString(_)
UintFromString(str) ==
    IF Len(str) = 0 THEN 0
    ELSE 10 * UintFromString(SubSeq(str, 1, Len(str) - 1)) + str[Len(str)]

\* WalletService.invokeContract, case 'mint': the named arguments
MintNamedArgs(args) ==
    [player |-> args[1],
     stats |-> [i \in 1..Len(args[2]) |-> NumberToString(args[2][i])],
     tokenURI |-> args[3]]

\* the uint256[6] the contract receives
DecodeStats(strs) == [i \in 1..Len(strs) |-> UintFromString(strs[i])]

\* WalletService.invokeContract: the methods its switch accepts
InvokeSupported(method) == method \in {"mint", "transferFrom", "safeTransferFrom"}

Undefined == "undefined"

\* a call that no HTTP request has started
NoExchange == [route |-> "", body |-> <<>>, status |-> 0, error |-> ""]
NoError == [name |-> "", code |-> "", message |-> ""]
NoResult == [success |-> FALSE]
NoStats == [stat \in {} |-> 0]

\* AIService.generateCharacterStory, catch block
StoryError ==
    [name |-> "AIServiceError", code |-> "STORY_GENERATION_FAILED",
     message |-> "Failed to generate character story"]

\* AIService.generateCharacterImage, catch block
ImageError ==
    [name |-> "AIServiceError", code |-> "IMAGE_GENERATION_FAILED",
     message |-> "Failed to generate image"]

\* IPFSService.uploadFile, catch block
UploadFileError ==
    [name |-> "IPFSServiceError", code |-> "UPLOAD_FAILED",
     message |-> "Failed to upload file"]

\* IPFSService.uploadMetadata, catch block
UploadMetadataError ==
    [name |-> "IPFSServiceError", code |-> "UPLOAD_FAILED",
     message |-> "Failed to upload metadata"]

\* createCharacter, catch around uploadFile: throw new Error(`Failed to upload image: ...`)
WrapUploadError(err) ==
    [name |-> "Error", code |-> Undefined, message |-> "Failed to upload image"]

\* WalletService.invokeContract, catch block: the ledger client's error is
\* logged and rethrown as it is
InvokeError(reason) ==
    [name |-> "Error", code |-> Undefined, message |-> reason]

\* createCharacter with the image publish moved before the portrait
StageAfterPublishFirst(stage) ==
    CASE stage = "narrative" -> "imagePublish"
      [] stage = "imagePublish" -> "portrait"
      [] stage = "portrait" -> "metadataPublish"
      [] stage = "metadataPublish" -> "mint"
      [] stage = "mint" -> "done"

\* the order in which createCharacter awaits its collaborators
StageAfter(stage) ==
    CASE stage = "narrative" -> "portrait"
      [] stage = "portrait" -> "imagePublish"
      [] stage = "imagePublish" -> "metadataPublish"
      [] stage = "metadataPublish" -> "mint"
      [] stage = "mint" -> "done"

\* createCharacter catching a stage's error and carrying on
AfterFailureContinue(stage) == StageAfter(stage)

\* createCharacter catching a stage's error and trying the stage again
AfterFailureRetry(stage) == stage

\* createCharacter, outer catch: log and rethrow
AfterFailure(stage) == "failed"

\* createCharacter unpinning what the call published before it rethrows
PinnedAfterFailureUnpin(c) == pinned \ {imageUri[c], metadataUri[c]}

\* createCharacter, outer catch: the content the call published stays
\* pinned, ipfsService.unpin is not called
PinnedAfterFailure(c) == pinned

StageReturns(c, stage) ==
    /\ pc' = [pc EXCEPT ![c] = StageAfter(stage)]
    /\ callLog' = [callLog EXCEPT ![c] = Append(@, stage)]
    /\ succeeded' = [succeeded EXCEPT ![c] = Append(@, stage)]

StageThrows(c, stage, err) ==
    /\ pc' = [pc EXCEPT ![c] = AfterFailure(stage)]
    /\ callLog' = [callLog EXCEPT ![c] = Append(@, stage)]
    /\ error' = [error EXCEPT ![c] = err]
    /\ pinned' = PinnedAfterFailure(c)
    /\ UNCHANGED succeeded

\* createCharacter(playerAddress, characterClass) is entered
EnterCreateCharacter(c, playerAddress, characterClass) ==
    /\ pc[c] = "idle"
    /\ pc' = [pc EXCEPT ![c] = "narrative"]
    /\ req' = [req EXCEPT ![c] = [playerAddress |-> playerAddress,
                                  characterClass |-> characterClass]]
    /\ UNCHANGED <<ledgerVars, lastTx, callLog, succeeded, baseStats, imageUri,
                   metadataUri, mintedId, result, error, pinned, metadata,
                   game, scan, container>>

\* createCharacter(playerAddress, characterClass) is called
CreateCharacter(c, playerAddress, characterClass) ==
    /\ http[c] = NoExchange
    /\ EnterCreateCharacter(c, playerAddress, characterClass)
    /\ UNCHANGED http

\* 1. await this.aiService.generateCharacterStory(...)
GenerateStoryOk(c) ==
    /\ pc[c] = "narrative"
    /\ StageReturns(c, "narrative")
    /\ UNCHANGED <<ledgerVars, lastTx, req, baseStats, imageUri, metadataUri,
                   mintedId, result, error, pinned, metadata,
                   game, scan, http, container>>

GenerateStoryFails(c) ==
    /\ pc[c] = "narrative"
    /\ StageThrows(c, "narrative", StoryError)
    /\ UNCHANGED <<ledgerVars, lastTx, req, baseStats, imageUri, metadataUri,
                   mintedId, result, metadata, game, scan, http, container>>

\* 2. await this.aiService.generateCharacterImage(...)
GenerateImageOk(c) ==
    /\ pc[c] = "portrait"
    /\ StageReturns(c, "portrait")
    /\ UNCHANGED <<ledgerVars, lastTx, req, baseStats, imageUri, metadataUri,
                   mintedId, result, error, pinned, metadata,
                   game, scan, http, container>>

GenerateImageFails(c) ==
    /\ pc[c] = "portrait"
    /\ StageThrows(c, "portrait", ImageError)
    /\ UNCHANGED <<ledgerVars, lastTx, req, baseStats, imageUri, metadataUri,
                   mintedId, result, metadata, game, scan, http, container>>

\* content identifier of what call c publishes
ContentUri(kind, c) == <<"ipfs", kind, c>>

\* 3. await this.ipfsService.uploadFile(imageBuffer, "character.png")
UploadImageOk(c) ==
    /\ pc[c] = "imagePublish"
    /\ StageReturns(c, "imagePublish")
    /\ imageUri' = [imageUri EXCEPT ![c] = ContentUri("image", c)]
    /\ pinned' = pinned \cup {ContentUri("image", c)}
    /\ UNCHANGED <<ledgerVars, lastTx, req, baseStats, metadataUri, mintedId,
                   result, error, metadata, game, scan, http, container>>

UploadImageFails(c) ==
    /\ pc[c] = "imagePublish"
    /\ StageThrows(c, "imagePublish", WrapUploadError(UploadFileError))
    /\ UNCHANGED <<ledgerVars, lastTx, req, baseStats, imageUri, metadataUri,
                   mintedId, result, metadata, game, scan, http, container>>

\* the value generateCharacterStory resolves with for call c; the model
\* answers the first call with a personality and the others without one
CharacterDetails(c) ==
    [name |-> <<"name", c>>, backstory |-> <<"backstory", c>>,
     personality |-> IF c = 1 THEN "bold" ELSE Undefined]

\* key.charAt(0).toUpperCase() + key.slice(1)
Capitalize(key) ==
    CASE key = "strength" -> "Strength"
      [] key = "dexterity" -> "Dexterity"
      [] key = "constitution" -> "Constitution"
      [] key = "intelligence" -> "Intelligence"
      [] key = "wisdom" -> "Wisdom"
      [] key = "charisma" -> "Charisma"

Trait(traitType, value) == <<traitType, value>>

\* the entries of stats in the opposite key order
ObjectEntriesReversed(stats) ==
    [i \in 1..Len(StatNames) |->
        <<StatNames[Len(StatNames) + 1 - i], stats[StatNames[Len(StatNames) + 1 - i]]>>]

\* Object.entries(stats): the entries in the key order of maxStats, which
\* the reduce of generateBaseStats hands on to baseStats
ObjectEntries(stats) ==
    [i \in 1..Len(StatNames) |-> <<StatNames[i], stats[StatNames[i]]>>]

\* const metadata = { name, description, image, attributes: [...] }
Metadata(c, stats) ==
    [name |-> CharacterDetails(c).name,
     description |-> CharacterDetails(c).backstory,
     image |-> imageUri[c],
     attributes |->
         <<Trait("Class", req[c].characterClass), Trait("Level", 1)>>
         \o [i \in 1..Len(ObjectEntries(stats)) |->
                Trait(Capitalize(ObjectEntries(stats)[i][1]),
                      ObjectEntries(stats)[i][2])]
         \o <<Trait("Personality",
                    IF CharacterDetails(c).personality # Undefined
                    THEN CharacterDetails(c).personality ELSE "Unknown")>>]

NoMetadata == [attributes |-> <<>>]

\* 4.-6. generateBaseStats, build the metadata,
\*       await this.ipfsService.uploadMetadata(metadata, ...)
UploadMetadataOk(c, draws) ==
    /\ pc[c] = "metadataPublish"
    /\ StageReturns(c, "metadataPublish")
    /\ baseStats' = [baseStats EXCEPT
                        ![c] = GenerateBaseStats(req[c].characterClass, draws)]
    /\ metadata' = [metadata EXCEPT
                       ![c] = Metadata(c, GenerateBaseStats(req[c].characterClass,
                                                            draws))]
    /\ metadataUri' = [metadataUri EXCEPT ![c] = ContentUri("metadata", c)]
    /\ pinned' = pinned \cup {ContentUri("metadata", c)}
    /\ UNCHANGED <<ledgerVars, lastTx, req, imageUri, mintedId, result, error,
                   game, scan, http, container>>

UploadMetadataFails(c, draws) ==
    /\ pc[c] = "metadataPublish"
    /\ StageThrows(c, "metadataPublish", UploadMetadataError)
    /\ baseStats' = [baseStats EXCEPT
                        ![c] = GenerateBaseStats(req[c].characterClass, draws)]
    /\ metadata' = [metadata EXCEPT
                       ![c] = Metadata(c, GenerateBaseStats(req[c].characterClass,
                                                            draws))]
    /\ UNCHANGED <<ledgerVars, lastTx, req, imageUri, metadataUri, mintedId,
                   result, game, scan, http, container>>

\* reference of the mint transaction that created a token
TxHash(tokenId) == <<"0xtx", tokenId>>
TxLink(tokenId) == <<"https://sepolia.basescan.org/tx", tokenId>>

\* the value createCharacter returns
CreateResult(playerAddress, characterClass, stats, tokenId) ==
    [success |-> TRUE,
     transactionHash |-> TxHash(tokenId),
     transactionLink |-> TxLink(tokenId),
     character |-> [owner |-> playerAddress, class |-> characterClass,
                    stats |-> stats]]

\* the mint arguments taken from fields of the service that the latest
\* call to reach the mint has overwritten
MintArgsShared(c) ==
    LET latest == IF \E d \in Calls : d > c /\ pc[d] = "mint"
                  THEN CHOOSE d \in Calls : d > c /\ pc[d] = "mint"
                  ELSE c IN
    <<req[c].playerAddress, StatsArray(baseStats[latest]), metadataUri[latest]>>

\* [playerAddress, stats, metadataUri]: the parameter and the locals of
\* the call
MintArgs(c) == <<req[c].playerAddress, StatsArray(baseStats[c]), metadataUri[c]>>

\* 7.-8. await this.walletService.invokeContract(address, "mint",
\*       [playerAddress, stats, metadataUri], abi): the transaction is mined
MintMined(c) ==
    /\ pc[c] = "mint"
    /\ InvokeSupported("mint")
    /\ LET stats == MintArgs(c)[2]
           namedArgs == MintNamedArgs(MintArgs(c)) IN
       /\ ContractMint(ContractOwner, namedArgs.player,
                       DecodeStats(namedArgs.stats), namedArgs.tokenURI)
       /\ IF lastTx'.ok
          THEN /\ StageReturns(c, "mint")
               /\ mintedId' = [mintedId EXCEPT ![c] = lastTx'.ret]
               /\ result' = [result EXCEPT ![c] =
                      CreateResult(req[c].playerAddress, req[c].characterClass,
                                   stats, lastTx'.ret)]
               /\ UNCHANGED <<error, pinned>>
          ELSE /\ StageThrows(c, "mint", InvokeError(lastTx'.error))
               /\ UNCHANGED <<mintedId, result>>
    /\ UNCHANGED <<req, baseStats, imageUri, metadataUri, metadata, game, scan, http, container>>

\* the ledger client fails before any transaction reaches the contract
MintNotSent(c) ==
    /\ pc[c] = "mint"
    /\ StageThrows(c, "mint", InvokeError("transaction not sent"))
    /\ UNCHANGED <<ledgerVars, lastTx, req, baseStats, imageUri, metadataUri,
                   mintedId, result, metadata, game, scan, http, container>>

NoRequest == [playerAddress |-> "", characterClass |-> ""]

\* generateBaseStats(characterClass) on its own: the first call rolls the
\* attributes of an archetype, once
RollBaseStats(characterClass, draws) ==
    /\ baseStats[1] = NoStats
    /\ req' = [req EXCEPT ![1] = [playerAddress |-> "0xA",
                                  characterClass |-> characterClass]]
    /\ baseStats' = [baseStats EXCEPT
                        ![1] = GenerateBaseStats(characterClass, draws)]
    /\ UNCHANGED <<ledgerVars, lastTx, pc, callLog, succeeded, imageUri,
                   metadataUri, mintedId, result, error, pinned, metadata,
                   game, scan, http, container>>

SagaInit ==
    /\ pc = [c \in Calls |-> "idle"]
    /\ req = [c \in Calls |-> NoRequest]
    /\ callLog = [c \in Calls |-> <<>>]
    /\ succeeded = [c \in Calls |-> <<>>]
    /\ baseStats = [c \in Calls |-> NoStats]
    /\ imageUri = [c \in Calls |-> NoUri]
    /\ metadataUri = [c \in Calls |-> NoUri]
    /\ mintedId = [c \in Calls |-> 0]
    /\ result = [c \in Calls |-> NoResult]
    /\ error = [c \in Calls |-> NoError]
    /\ pinned = {}
    /\ metadata = [c \in Calls |-> NoMetadata]

(***************************************************************************)
(* GameService and CharacterService.getCharacter / gainExperience          *)
(***************************************************************************)
\* inputs of the gameplay actions
QuestOutcomes == {"success", "partial", "failure"}
QuestExperience == {100}
EnemyTypes == {"weak", "boss"}
CombatRounds == {2, 5}

NoTx == <<>>

\* CharacterService.getCharacter(tokenId): the value it resolves with, or
\* the ServiceError of its catch block
ServiceGetCharacter(tokenId) ==
    IF InvokeSupported("getCharacter") /\ Exists(tokenId)
    THEN [ok |-> TRUE,
          class |-> IF "class" \in DOMAIN characters[tokenId]
                    THEN characters[tokenId].class ELSE Undefined,
          level |-> characters[tokenId].level,
          stats |-> StatsArray(characters[tokenId]), code |-> ""]
    ELSE [ok |-> FALSE, class |-> Undefined, level |-> 0, stats |-> <<>>,
          code |-> "CHARACTER_FETCH_FAILED"]

\* CharacterService.gainExperience(tokenId, amount): what reaches the ledger
ServiceGainExperience(tokenId, amount) ==
    IF InvokeSupported("gainExperience")
    THEN ContractGainExperience(ContractOwner, tokenId, amount)
    ELSE UNCHANGED <<ledgerVars, lastTx>>

\* ... and whether it resolved (in the state after the call)
ServiceGainExperienceOk == InvokeSupported("gainExperience") /\ lastTx'.ok

\* GameService.calculateCombatExperience(enemyType, rounds)
CalculateCombatExperience(enemyType, rounds) ==
    LET baseXP == CASE enemyType = "weak" -> 50
                    [] enemyType = "normal" -> 100
                    [] enemyType = "elite" -> 200
                    [] enemyType = "boss" -> 500
                    [] OTHER -> 100 IN
    IF rounds <= 3 THEN (baseXP * 12) \div 10 ELSE baseXP

GameOutcome(action, tokenId, grant, ok, code, txRef) ==
    game' = [action |-> action, tokenId |-> tokenId,
             grant |-> grant, ok |-> ok, code |-> code, txRef |-> txRef]

\* CharacterService.gainExperience(tokenId, amount) is called
GainExperience(tokenId, amount) ==
    /\ ServiceGainExperience(tokenId, amount)
    /\ IF ServiceGainExperienceOk
       THEN GameOutcome("gainExperience", tokenId, amount, TRUE, "",
                        TxHash(tokenId))
       ELSE GameOutcome("gainExperience", tokenId, amount, FALSE,
                        "EXPERIENCE_GAIN_FAILED", NoTx)
    /\ UNCHANGED <<sagaVars, scan, http, container>>

\* GameService.processQuestAction(tokenId, questId, action, context), where
\* the game master's answer is (outcome, experience)
ProcessQuestAction(tokenId, outcome, experience) ==
    /\ LET character == ServiceGetCharacter(tokenId)
           grant == IF outcome \in {"success", "partial"} THEN experience ELSE 0 IN
       IF ~character.ok
       THEN /\ UNCHANGED <<ledgerVars, lastTx>>
            /\ GameOutcome("quest", tokenId, grant, FALSE,
                           "QUEST_ACTION_FAILED", NoTx)
       ELSE IF outcome = "success" \/ outcome = "partial"
       THEN /\ ServiceGainExperience(tokenId, experience)
            /\ IF ServiceGainExperienceOk
               THEN GameOutcome("quest", tokenId, grant, TRUE, "", TxHash(tokenId))
               ELSE GameOutcome("quest", tokenId, grant, FALSE,
                                "QUEST_ACTION_FAILED", NoTx)
       ELSE /\ UNCHANGED <<ledgerVars, lastTx>>
            /\ GameOutcome("quest", tokenId, grant, TRUE, "", NoTx)
    /\ UNCHANGED <<sagaVars, scan, http, container>>

\* GameService.processCombatAction(tokenId, action, combatState), where hit
\* and kill say whether the roll hits and whether the damage ends the fight
ProcessCombatAction(tokenId, enemyType, round, hit, kill) ==
    /\ LET character == ServiceGetCharacter(tokenId)
           experience == CalculateCombatExperience(enemyType, round)
           grant == IF hit /\ kill THEN experience ELSE 0 IN
       IF ~character.ok
       THEN /\ UNCHANGED <<ledgerVars, lastTx>>
            /\ GameOutcome("combat", tokenId, grant, FALSE,
                           "COMBAT_ACTION_FAILED", NoTx)
       ELSE IF hit /\ kill
       THEN /\ ServiceGainExperience(tokenId, experience)
            /\ IF ServiceGainExperienceOk
               THEN GameOutcome("combat", tokenId, grant, TRUE, "", TxHash(tokenId))
               ELSE GameOutcome("combat", tokenId, grant, FALSE,
                                "COMBAT_ACTION_FAILED", NoTx)
       ELSE /\ UNCHANGED <<ledgerVars, lastTx>>
            /\ GameOutcome("combat", tokenId, grant, TRUE, "", NoTx)
    /\ UNCHANGED <<sagaVars, scan, http, container>>

GameInit ==
    game = [action |-> "none", tokenId |-> 0, grant |-> 0,
            ok |-> TRUE, code |-> "", txRef |-> NoTx]

(***************************************************************************)
(* CharacterService.getCharactersByOwner                                   *)
(***************************************************************************)
\* inputs of getCharactersByOwner
OwnerInputs == {"0xa", "0xB"}
PageInputs == {0, 1, 2}
LimitInputs == {1, 2}
\* accounts minting and transfers give tokens to while a scan runs
Holders == {"0xA", "0xB"}
ReadAmounts == {3000}

Min(a, b) == IF a <= b THEN a ELSE b

\* String.prototype.toLowerCase over the addresses of the model
ToLowerCase(str) ==
    CASE str = "0xA" -> "0xa"
      [] str = "0xB" -> "0xb"
      [] str = "0xSigner" -> "0xsigner"
      [] str = "0xC0de" -> "0xc0de"
      [] OTHER -> str

\* owner.toLowerCase() === ownerAddress.toLowerCase()
OwnerMatches(owner, ownerAddress) == ToLowerCase(owner) = ToLowerCase(ownerAddress)

\* processedCharacter; the later characters.map applies toString to
\* strings and leaves every field as it is
ProcessedCharacter(tokenId, owner, characterData) ==
    [tokenId |-> NumberToString(tokenId),
     owner |-> owner,
     stats |-> [i \in 1..6 |-> NumberToString(StatsArray(characterData)[i])],
     experience |-> NumberToString(characterData.experience),
     level |-> NumberToString(characterData.level),
     seasonId |-> NumberToString(characterData.seasonId),
     evolved |-> characterData.evolved]

\* Array.prototype.slice(start, end)
Slice(seq, start, end) ==
    LET from == IF start < 0 THEN Max(Len(seq) + start, 0) ELSE Min(start, Len(seq))
        to == IF end < 0 THEN Max(Len(seq) + end, 0) ELSE Min(end, Len(seq)) IN
    SubSeq(seq, from + 1, to)

\* a page counted from 0
PageStartFromZero(page, limit) == page * limit

\* const start = (page - 1) * limit
PageStart(page, limit) == (page - 1) * limit

\* const end = start + limit
PageEnd(page, limit) == PageStart(page, limit) + limit

\* { characters: processedCharacters.slice(start, end), total: characters.length }
ScanResult(found, page, limit) ==
    [characters |-> Slice(found, PageStart(page, limit), PageEnd(page, limit)),
     total |-> Len(found)]

NoScanResult == [characters |-> <<>>, total |-> -1]

IdleScan ==
    [pc |-> "idle", ownerAddress |-> "", page |-> 1, limit |-> 1,
     totalSupply |-> 0, tokenId |-> 0, owner |-> NoOwner, characters |-> <<>>,
     skipped |-> {}, mined |-> FALSE, result |-> NoScanResult]

Scanning == scan.pc \in {"ownerOf", "getCharacter"}

\* getCharactersByOwner is called and reads totalSupply
GetCharactersByOwner(ownerAddress, page, limit) ==
    /\ scan.pc = "idle"
    /\ scan' = [IdleScan EXCEPT
                   !.pc = IF tokenIds = 0 THEN "done" ELSE "ownerOf",
                   !.ownerAddress = ownerAddress, !.page = page, !.limit = limit,
                   !.totalSupply = tokenIds, !.tokenId = 1,
                   !.result = IF tokenIds = 0
                              THEN [characters |-> <<>>, total |-> 0]
                              ELSE NoScanResult]
    /\ UNCHANGED <<ledgerVars, lastTx, sagaVars, game, http, container>>

\* ... and the read of totalSupply rejects: the outer catch rethrows
GetCharactersByOwnerFails(ownerAddress, page, limit) ==
    /\ scan.pc = "idle"
    /\ scan' = [IdleScan EXCEPT
                   !.pc = "failed",
                   !.ownerAddress = ownerAddress, !.page = page, !.limit = limit]
    /\ UNCHANGED <<ledgerVars, lastTx, sagaVars, game, http, container>>

\* the loop going on to the next token id with the matches found so far, or
\* leaving the loop and returning the page
NextToken(found, skipped) ==
    IF scan.tokenId + 1 <= scan.totalSupply
    THEN [scan EXCEPT !.pc = "ownerOf", !.tokenId = @ + 1, !.owner = NoOwner,
                      !.characters = found, !.skipped = skipped]
    ELSE [scan EXCEPT !.pc = "done", !.tokenId = @ + 1, !.owner = NoOwner,
                      !.characters = found, !.skipped = skipped,
                      !.result = ScanResult(found, scan.page, scan.limit)]

\* await readContract(address, "ownerOf", { tokenId }) returns
ReadOwnerOf ==
    /\ scan.pc = "ownerOf"
    /\ LET owner == OwnerOf(scan.tokenId) IN
       scan' = IF OwnerMatches(owner, scan.ownerAddress)
               THEN [scan EXCEPT !.pc = "getCharacter", !.owner = owner]
               ELSE NextToken(scan.characters, scan.skipped)
    /\ UNCHANGED <<ledgerVars, lastTx, sagaVars, game, http, container>>

\* await readContract(address, "getCharacter", { tokenId }) returns
ReadCharacter ==
    /\ scan.pc = "getCharacter"
    /\ scan' = NextToken(Append(scan.characters,
                                ProcessedCharacter(scan.tokenId, scan.owner,
                                                   characters[scan.tokenId])),
                         scan.skipped)
    /\ UNCHANGED <<ledgerVars, lastTx, sagaVars, game, http, container>>

\* either read rejects: the catch inside the loop logs and continues
ReadTokenFails ==
    /\ Scanning
    /\ scan' = NextToken(scan.characters, scan.skipped \cup {scan.tokenId})
    /\ UNCHANGED <<ledgerVars, lastTx, sagaVars, game, http, container>>

\* a transaction sent to the contract before the call or while it runs
Meanwhile(transaction) ==
    /\ scan.pc \notin {"done", "failed"}
    /\ transaction
    /\ scan' = [scan EXCEPT !.mined = @ \/ (Scanning /\ lastTx'.ok)]
    /\ UNCHANGED <<sagaVars, game, http, container>>

ScanInit == scan = IdleScan

(***************************************************************************)
(* GameController.createCharacter and CharacterController.createCharacter  *)
(***************************************************************************)
\* the two routes: POST /game/characters and POST /create
Routes == {"game", "character"}

\* request bodies: complete, without playerAddress, without characterClass,
\* with an empty playerAddress, with a class that is no archetype
BodyInputs ==
    {[playerAddress |-> "0xA", characterClass |-> "warrior"],
     [playerAddress |-> Undefined, characterClass |-> "warrior"],
     [playerAddress |-> "0xA", characterClass |-> Undefined],
     [playerAddress |-> "", characterClass |-> "mage"],
     [playerAddress |-> "0xA", characterClass |-> "paladin"]}

\* !value is false
Truthy(value) == value \notin {Undefined, ""}

\* a controller that takes any class
ValidClassAny(characterClass) == TRUE

\* Object.values(CharacterClass).includes(characterClass)
ValidClass(characterClass) == characterClass \in CharacterClass

MissingFields(route) ==
    IF route = "game"
    THEN "Missing required fields: playerAddress and characterClass"
    ELSE "Missing required parameters"

\* res.status(status).json({ error })
Responded(route, body, status, err) ==
    [route |-> route, body |-> body, status |-> status, error |-> err]

\* the handler of POST /characters (GameController) or POST /create
\* (CharacterController), up to its await of characterService.createCharacter
PostCharacters(route, c, body) ==
    /\ http[c] = NoExchange
    /\ pc[c] = "idle"
    /\ IF ~Truthy(body.playerAddress) \/ ~Truthy(body.characterClass)
       THEN /\ http' = [http EXCEPT ![c] =
                           Responded(route, body, 400, MissingFields(route))]
            /\ UNCHANGED <<ledgerVars, lastTx, sagaVars, game, scan, container>>
       ELSE IF ~ValidClass(body.characterClass)
       THEN /\ http' = [http EXCEPT ![c] =
                           Responded(route, body, 400, "Invalid character class")]
            /\ UNCHANGED <<ledgerVars, lastTx, sagaVars, game, scan, container>>
       ELSE /\ http' = [http EXCEPT ![c] = Responded(route, body, 0, "")]
            /\ EnterCreateCharacter(c, body.playerAddress, body.characterClass)

\* res.status(201).json(result) / res.json(result)
CreatedStatus(route) == IF route = "game" THEN 201 ELSE 200

\* the handler after its await: the result is sent, or the catch block
\* answers with error.statusCode || 500
RespondCharacters(c) ==
    /\ http[c].route # ""
    /\ http[c].status = 0
    /\ pc[c] \in {"done", "failed"}
    /\ http' = [http EXCEPT ![c] =
                    IF pc[c] = "done"
                    THEN [@ EXCEPT !.status = CreatedStatus(http[c].route)]
                    ELSE [@ EXCEPT !.status = 500, !.error = error[c].message]]
    /\ UNCHANGED <<ledgerVars, lastTx, sagaVars, game, scan, container>>

HttpInit == http = [c \in Calls |-> NoExchange]

(***************************************************************************)
(* Container.initialize                                                    *)
(***************************************************************************)
\* ServiceState
UNINITIALIZED == "UNINITIALIZED"
DEPLOYMENT == "DEPLOYMENT"
RUNTIME == "RUNTIME"

BaseServices == {"WALLET_SERVICE", "IPFS_SERVICE", "AI_SERVICE"}
DeploymentServices == {"CONTRACT_DEPLOYMENT_SERVICE"}
RuntimeServices == {"CHARACTER_SERVICE", "GAME_SERVICE"}

\* an initialize call that has not been made
NotCalled == [pc |-> "idle", isDeployment |-> FALSE]

\* static async initialize(isDeployment), up to its await: the guard, then
\* new WalletService(isDeployment); the state is not written before the end
\* of the try block
Initialize(i, isDeployment) ==
    /\ container.call[i].pc = "idle"
    /\ container' =
           IF container.state # UNINITIALIZED
           THEN [container EXCEPT !.call[i] = [pc |-> "returned",
                                               isDeployment |-> isDeployment]]
           ELSE [container EXCEPT !.call[i] = [pc |-> "walletInitialize",
                                               isDeployment |-> isDeployment],
                                  !.wallets = @ + 1]
    /\ UNCHANGED <<ledgerVars, lastTx, sagaVars, game, scan, http>>

\* new WalletService(isDeployment) throws: the catch block rethrows
InitializeThrows(i, isDeployment) ==
    /\ container.call[i].pc = "idle"
    /\ container.state = UNINITIALIZED
    /\ container' = [container EXCEPT !.call[i] = [pc |-> "failed",
                                                   isDeployment |-> isDeployment]]
    /\ UNCHANGED <<ledgerVars, lastTx, sagaVars, game, scan, http>>

\* await walletService.initialize() resolves: the services are built and
\* registered, the state is set
WalletInitialized(i) ==
    /\ container.call[i].pc = "walletInitialize"
    /\ container' =
           [container EXCEPT
               !.call[i].pc = "returned",
               !.registered = @ \cup BaseServices \cup
                                  (IF container.call[i].isDeployment
                                   THEN DeploymentServices ELSE RuntimeServices),
               !.built = @ + 1,
               !.state = IF container.call[i].isDeployment
                         THEN DEPLOYMENT ELSE RUNTIME]
    /\ UNCHANGED <<ledgerVars, lastTx, sagaVars, game, scan, http>>

\* await walletService.initialize() rejects: the catch block rethrows
WalletInitializeFails(i) ==
    /\ container.call[i].pc = "walletInitialize"
    /\ container' = [container EXCEPT !.call[i].pc = "failed"]
    /\ UNCHANGED <<ledgerVars, lastTx, sagaVars, game, scan, http>>

\* the await resolves and new IPFSService() throws: the wallet service is
\* registered, the catch block rethrows
ServiceConstructorThrows(i) ==
    /\ container.call[i].pc = "walletInitialize"
    /\ container' = [container EXCEPT !.call[i].pc = "failed",
                                      !.registered = @ \cup {"WALLET_SERVICE"}]
    /\ UNCHANGED <<ledgerVars, lastTx, sagaVars, game, scan, http>>

ContainerInit ==
    container = [state |-> UNINITIALIZED, registered |-> {}, wallets |-> 0,
                 built |-> 0, call |-> [i \in Calls |-> NotCalled]]

(***************************************************************************)
(* Transactions sent to the contract from outside the backend              *)
(***************************************************************************)
Mint(sender, player, stats, tokenURI) ==
    /\ ContractMint(sender, player, stats, tokenURI)
    /\ UNCHANGED <<sagaVars, game, scan, http, container>>

EvolveCharacter(sender, tokenId, newStats, newTokenURI) ==
    /\ ContractEvolveCharacter(sender, tokenId, newStats, newTokenURI)
    /\ UNCHANGED <<sagaVars, game, scan, http, container>>

LedgerGainExperience(sender, tokenId, amount) ==
    /\ ContractGainExperience(sender, tokenId, amount)
    /\ UNCHANGED <<sagaVars, game, scan, http, container>>

AdvanceSeason(sender) ==
    /\ ContractAdvanceSeason(sender)
    /\ UNCHANGED <<sagaVars, game, scan, http, container>>

SetSeasonalPower(sender, tokenId, power) ==
    /\ ContractSetSeasonalPower(sender, tokenId, power)
    /\ UNCHANGED <<sagaVars, game, scan, http, container>>

TransferFrom(sender, to, tokenId) ==
    /\ ContractTransferFrom(sender, to, tokenId)
    /\ UNCHANGED <<sagaVars, game, scan, http, container>>

(***************************************************************************)
(* Specifications                                                          *)
(***************************************************************************)
Init == LedgerInit /\ SagaInit /\ GameInit /\ ScanInit /\ HttpInit /\ ContainerInit

\* the backend serving createCharacter calls, with the season advancing
\* underneath them
Next ==
    \/ \E c \in Calls, a \in PlayerInputs, k \in ClassInputs :
           CreateCharacter(c, a, k)
    \/ \E c \in Calls : GenerateStoryOk(c)
    \/ \E c \in Calls : GenerateStoryFails(c)
    \/ \E c \in Calls : GenerateImageOk(c)
    \/ \E c \in Calls : GenerateImageFails(c)
    \/ \E c \in Calls : UploadImageOk(c)
    \/ \E c \in Calls : UploadImageFails(c)
    \/ \E c \in Calls, d \in RandomDraws : UploadMetadataOk(c, d)
    \/ \E c \in Calls, d \in RandomDraws : UploadMetadataFails(c, d)
    \/ \E c \in Calls : MintMined(c)
    \/ \E c \in Calls : MintNotSent(c)
    \/ AdvanceSeason(ContractOwner)

Spec == Init /\ [][Next]_vars

\* the contract under the transactions that any account sends to it,
\* tokens changing hands
LedgerNext ==
    \/ \E a \in Senders, p \in MintTo, st \in StatInputs, u \in UriInputs :
           Mint(a, p, st, u)
    \/ \E a \in Senders, t \in TokenIds, st \in EvolveStatInputs, u \in UriInputs :
           EvolveCharacter(a, t, st, u)
    \/ \E a \in Senders, t \in TokenIds, x \in TrainingAmounts :
           LedgerGainExperience(a, t, x)
    \/ \E a \in Senders : AdvanceSeason(a)
    \/ \E a \in Senders, to \in TransferTo, t \in TokenIds :
           TransferFrom(a, to, t)

LedgerSpec == Init /\ [][LedgerNext]_vars

\* the contract under the five operations of its owner
ContractNext ==
    \/ \E p \in MintTo, st \in StatInputs, u \in UriInputs :
           Mint(ContractOwner, p, st, u)
    \/ \E t \in TokenIds, st \in EvolveStatInputs, u \in UriInputs :
           EvolveCharacter(ContractOwner, t, st, u)
    \/ \E t \in TokenIds, x \in XpAmounts :
           LedgerGainExperience(ContractOwner, t, x)
    \/ AdvanceSeason(ContractOwner)
    \/ \E t \in PowerTokens, p \in PowerInputs :
           SetSeasonalPower(ContractOwner, t, p)

ContractSpec == Init /\ [][ContractNext]_vars

\* the five operations of the contract, sent by its owner and by another
\* account
AccessNext ==
    \/ \E a \in Senders, p \in MintTo, st \in StatInputs, u \in UriInputs :
           Mint(a, p, st, u)
    \/ \E a \in Senders, t \in TokenIds, st \in EvolveStatInputs, u \in UriInputs :
           EvolveCharacter(a, t, st, u)
    \/ \E a \in Senders, t \in TokenIds, x \in XpAmounts :
           LedgerGainExperience(a, t, x)
    \/ \E a \in Senders : AdvanceSeason(a)
    \/ \E a \in Senders, t \in PowerTokens, p \in PowerInputs :
           SetSeasonalPower(a, t, p)

AccessSpec == Init /\ [][AccessNext]_vars

\* the owner training tokens, evolving them and training them further
RetirementNext ==
    \/ \E p \in MintTo, st \in StatInputs, u \in UriInputs :
           Mint(ContractOwner, p, st, u)
    \/ \E t \in TokenIds, x \in RetirementAmounts :
           LedgerGainExperience(ContractOwner, t, x)
    \/ \E t \in TokenIds, st \in EvolveStatInputs, u \in UriInputs :
           EvolveCharacter(ContractOwner, t, st, u)

RetirementSpec == Init /\ [][RetirementNext]_vars

\* generateBaseStats rolled for every archetype
StatsNext ==
    \E k \in CharacterClass, d \in AllDraws : RollBaseStats(k, d)

StatsSpec == Init /\ [][StatsNext]_vars

\* getCharactersByOwner calls served while tokens are minted, trained and
\* change hands
RegistryNext ==
    \/ \E a \in OwnerInputs, p \in PageInputs, l \in LimitInputs :
           GetCharactersByOwner(a, p, l)
    \/ \E a \in OwnerInputs, p \in PageInputs, l \in LimitInputs :
           GetCharactersByOwnerFails(a, p, l)
    \/ ReadOwnerOf
    \/ ReadCharacter
    \/ ReadTokenFails
    \/ \E p \in Holders, st \in StatInputs, u \in UriInputs :
           Meanwhile(ContractMint(ContractOwner, p, st, u))
    \/ \E t \in TokenIds :
           Meanwhile(ContractTransferFrom("0xA", "0xB", t))
    \/ \E t \in TokenIds, x \in ReadAmounts :
           Meanwhile(ContractGainExperience(ContractOwner, t, x))

RegistrySpec == Init /\ [][RegistryNext]_vars

\* the backend serving POST requests that create characters
ControllerNext ==
    \/ \E route \in Routes, c \in Calls, body \in BodyInputs :
           PostCharacters(route, c, body)
    \/ \E c \in Calls : GenerateStoryOk(c)
    \/ \E c \in Calls : GenerateStoryFails(c)
    \/ \E c \in Calls : GenerateImageOk(c)
    \/ \E c \in Calls : UploadImageOk(c)
    \/ \E c \in Calls, d \in RandomDraws : UploadMetadataOk(c, d)
    \/ \E c \in Calls : MintMined(c)
    \/ \E c \in Calls : RespondCharacters(c)

ControllerSpec == Init /\ [][ControllerNext]_vars

\* Container.initialize calls of one process
ContainerNext ==
    \/ \E i \in Calls, isDeployment \in BOOLEAN : Initialize(i, isDeployment)
    \/ \E i \in Calls, isDeployment \in BOOLEAN : InitializeThrows(i, isDeployment)
    \/ \E i \in Calls : WalletInitialized(i)
    \/ \E i \in Calls : WalletInitializeFails(i)
    \/ \E i \in Calls : ServiceConstructorThrows(i)

ContainerSpec == Init /\ [][ContainerNext]_vars

\* the gameplay actions of the backend over minted tokens
GameNext ==
    \/ \E p \in MintTo, st \in StatInputs, u \in UriInputs :
           Mint(ContractOwner, p, st, u)
    \/ \E t \in TokenIds, x \in XpAmounts :
           LedgerGainExperience(ContractOwner, t, x)
    \/ \E t \in TokenIds, x \in QuestExperience : GainExperience(t, x)
    \/ \E t \in TokenIds, o \in QuestOutcomes, x \in QuestExperience :
           ProcessQuestAction(t, o, x)
    \/ \E t \in TokenIds, e \in EnemyTypes, r \in CombatRounds, h, k \in BOOLEAN :
           ProcessCombatAction(t, e, r, h, k)

GameSpec == Init /\ [][GameNext]_vars

(***************************************************************************)
(* Properties of createCharacter, checked under Spec                       *)
(***************************************************************************)
StageOrder == <<"narrative", "portrait", "imagePublish", "metadataPublish", "mint">>

Range(seq) == {seq[i] : i \in 1..Len(seq)}

\* C1: every createCharacter call invokes its collaborators in the order
\* narrative, portrait, image publish, metadata publish, mint, and invokes
\* each of them only after the one before it has returned to the same call;
\* the token a call mints carries the metadata URI that call published.
C1_FixedStageOrder ==
    \A c \in Calls :
        /\ Len(callLog[c]) <= Len(StageOrder)
        /\ callLog[c] = SubSeq(StageOrder, 1, Len(callLog[c]))
        /\ \A i \in 2..Len(callLog[c]) : callLog[c][i - 1] \in Range(succeeded[c])
        /\ mintedId[c] # 0 =>
               /\ Range(succeeded[c]) = Range(StageOrder)
               /\ metadataUri[c] \in pinned
               /\ imageUri[c] \in pinned
               /\ tokenURIs[mintedId[c]] = metadataUri[c]

\* a call went through all five stages and minted
C1_Witness ==
    \E c \in Calls : pc[c] = "done" /\ callLog[c] = StageOrder /\ mintedId[c] # 0

\* C2: a stage that fails is the last collaborator operation its call ever
\* invokes: the call rejects with an error and no result, and when the
\* failing stage is narrative, portrait, image publish or metadata publish
\* no mint is invoked and no token is created for the call; a portrait
\* failure leaves zero publish calls and zero mint calls.
C2_FailureAborts ==
    \A c \in Calls : \A i \in 1..Len(callLog[c]) :
        callLog[c][i] \notin Range(succeeded[c]) =>
            /\ i = Len(callLog[c])
            /\ pc[c] = "failed"
            /\ error[c] # NoError
            /\ result[c] = NoResult
            /\ callLog[c][i] # "mint" =>
                   /\ "mint" \notin Range(callLog[c])
                   /\ mintedId[c] = 0
                   /\ \A t \in TokenIds :
                          Exists(t) => tokenURIs[t] # ContentUri("metadata", c)
            /\ callLog[c][i] = "portrait" =>
                   /\ Range(callLog[c]) \cap {"imagePublish", "metadataPublish", "mint"} = {}
                   /\ ContentUri("image", c) \notin pinned
                   /\ ContentUri("metadata", c) \notin pinned

\* a call whose portrait generation failed, next to a call that went on
C2_Witness ==
    \E c \in Calls, d \in Calls :
        /\ pc[c] = "failed"
        /\ callLog[c] = <<"narrative", "portrait">>
        /\ error[c] = ImageError
        /\ pc[d] = "done"

\* C3: every failure createCharacter surfaces carries a machine-readable
\* code and a human-readable message.
C3_FailureHasCode ==
    \A c \in Calls :
        pc[c] = "failed" =>
            /\ error[c].code \notin {Undefined, ""}
            /\ error[c].message # ""

\* the field is part of the result, at its top level or under character
ResultHas(r, field) ==
    \/ field \in DOMAIN r
    \/ "character" \in DOMAIN r /\ field \in DOMAIN r.character

ResultField(r, field) == IF field \in DOMAIN r THEN r[field] ELSE r.character[field]

\* C4: the result of a successful createCharacter contains the id of the
\* token this call minted, the mint transaction reference, and the image URI
\* and metadata URI this call published.
C4_ResultComplete ==
    \A c \in Calls :
        pc[c] = "done" =>
            /\ result[c].success
            /\ result[c].transactionHash = TxHash(mintedId[c])
            /\ ResultHas(result[c], "tokenId")
            /\ ResultField(result[c], "tokenId") = mintedId[c]
            /\ ResultHas(result[c], "imageUri")
            /\ ResultField(result[c], "imageUri") = imageUri[c]
            /\ ResultHas(result[c], "metadataUri")
            /\ ResultField(result[c], "metadataUri") = metadataUri[c]

\* C5: the token minted by a successful createCharacter(O, A) is owned by O
\* and its record holds archetype A, level 1, experience 0, evolved false,
\* the season current at the mint and the six attributes the call rolled.
C5_MintedRecord ==
    \A c \in Calls :
        pc[c] = "done" =>
            LET t == mintedId[c]
                r == characters[t] IN
            /\ Exists(t)
            /\ OwnerOf(t) = req[c].playerAddress
            /\ r.level = 1
            /\ r.experience = 0
            /\ r.evolved = FALSE
            /\ r.seasonId <= currentSeason
            /\ StatsArray(r) = StatsArray(baseStats[c])
            /\ "class" \in DOMAIN r
            /\ r.class = req[c].characterClass

(***************************************************************************)
(* Properties of the ledger contract, checked under ContractSpec           *)
(***************************************************************************)
\* the receipt of the step's transaction reports a LevelUp of the token
LevelUpReported(t) ==
    \E e \in lastTx'.events : e.name = "LevelUp" /\ e.tokenId = t

\* C6: every existing token has level = floor(experience / 1000) + 1, and
\* granting 2500 experience in one gainExperience to a token at level 1 with
\* experience 0 leaves it at level 3.
C6_LevelFormula ==
    /\ [](\A t \in TokenIds :
            Exists(t) =>
                characters[t].level = (characters[t].experience \div 1000) + 1)
    /\ [][\A t \in TokenIds :
            (/\ Exists(t)
             /\ characters[t].experience = 0
             /\ characters[t].level = 1
             /\ LedgerGainExperience(ContractOwner, t, 2500))
            => (characters'[t].experience = 2500 /\ characters'[t].level = 3)]_vars

\* a token that received 2500 experience in one grant
C6_Witness ==
    \E t \in TokenIds :
        /\ Exists(t)
        /\ characters[t].experience = 2500
        /\ characters[t].level = 3
        /\ [name |-> "LevelUp", tokenId |-> t, value |-> 3] \in lastTx.events

\* C7: no ledger operation (mint, gainExperience, evolveCharacter,
\* advanceSeason, setSeasonalPower) decreases the experience or the level of
\* an existing token; a gainExperience with amount 0 changes neither and
\* reports no level-up; a level-up is reported exactly when the grant leaves
\* the token at a higher level than before, and it reports that level.
\* (A mined gainExperience is the step whose receipt holds ExperienceGained.)
C7_Monotonic ==
    [][/\ \A t \in TokenIds :
              Exists(t) =>
                  /\ characters'[t].experience >= characters[t].experience
                  /\ characters'[t].level >= characters[t].level
       /\ ~lastTx'.ok => (characters' = characters /\ lastTx'.events = NoEvents)
       /\ \A e \in lastTx'.events :
              e.name = "ExperienceGained" =>
                  /\ e.value = 0 =>
                         /\ characters'[e.tokenId] = characters[e.tokenId]
                         /\ ~LevelUpReported(e.tokenId)
                  /\ LevelUpReported(e.tokenId) <=>
                         characters'[e.tokenId].level > characters[e.tokenId].level
       /\ \A e \in lastTx'.events :
              e.name = "LevelUp" =>
                  /\ \E g \in lastTx'.events :
                         g.name = "ExperienceGained" /\ g.tokenId = e.tokenId
                  /\ e.value = characters'[e.tokenId].level]_vars

\* a token that gained experience twice, and then a grant of 0
C7_Witness ==
    \E t \in TokenIds :
        /\ Exists(t)
        /\ characters[t].experience = 5000
        /\ characters[t].level = 6
        /\ lastTx.ok
        /\ lastTx.events = {[name |-> "ExperienceGained", tokenId |-> t, value |-> 0]}

(***************************************************************************)
(* Properties of the ledger contract, checked under LedgerSpec             *)
(***************************************************************************)
\* the record of the token is eligible for evolution
CanEvolve(t) ==
    /\ Exists(t)
    /\ characters[t].level >= 5
    /\ ~characters[t].evolved

\* C9 as stated: evolveCharacter succeeds exactly when the token exists, has
\* level >= 5 and is not evolved, and a failing call leaves the ledger as it was.
C9_EvolveIffEligible ==
    [][\A a \in Senders, t \in TokenIds, st \in EvolveStatInputs, u \in UriInputs :
          ((~lastTx'.ok \/ tokenIds' # tokenIds) /\ EvolveCharacter(a, t, st, u)) =>
              /\ lastTx'.ok <=> CanEvolve(t)
              /\ ~lastTx'.ok => UNCHANGED ledgerVars]_vars

\* C9, amended: evolveCharacter succeeds exactly when it is sent by the
\* contract owner, the token exists, has level >= 5, is not evolved, and the
\* token's current owner can receive an ERC721 token; every other call fails
\* and leaves the whole ledger state as it was.
C9_EvolveIffEligibleOwner ==
    [][\A a \in Senders, t \in TokenIds, st \in EvolveStatInputs, u \in UriInputs :
          ((~lastTx'.ok \/ tokenIds' # tokenIds) /\ EvolveCharacter(a, t, st, u)) =>
              /\ lastTx'.ok <=>
                     (a = ContractOwner /\ CanEvolve(t) /\ OwnerOf(t) # NonReceiver)
              /\ lastTx'.ok => tokenIds' = tokenIds + 1
              /\ ~lastTx'.ok => UNCHANGED ledgerVars]_vars

\* the ledger right after the evolution of an eligible token succeeded
C9_Witness ==
    \E t \in TokenIds :
        /\ Exists(t)
        /\ characters[t].evolved
        /\ characters[t].level >= 5
        /\ lastTx.ok
        /\ \E e \in lastTx.events : e.name = "CharacterEvolved" /\ e.tokenId = t

\* the record a successful evolution must write for the new token
EvolutionWrites(t, st, evolvedFlag) ==
    LET n == tokenIds + 1 IN
    /\ ~Exists(n)
    /\ tokenIds' = n
    /\ tokenExists'[n]
    /\ n # t
    /\ characters'[n].level = 1
    /\ characters'[n].experience = 0
    /\ characters'[n].seasonId = currentSeason
    /\ StatsArray(characters'[n]) = st
    /\ characters'[n].evolved = evolvedFlag
    /\ characters'[t].evolved = TRUE

\* C10 as stated: a successful evolution creates a new token with a new id,
\* level 1, experience 0, the current season, the supplied attributes and
\* evolved = false, and sets the source token's evolved flag.
C10_EvolutionRecord ==
    [][\A a \in Senders, t \in TokenIds, st \in EvolveStatInputs, u \in UriInputs :
          (lastTx'.ok /\ tokenIds' # tokenIds /\ EvolveCharacter(a, t, st, u)) =>
              EvolutionWrites(t, st, FALSE)]_vars

\* C10, amended: as stated, except that the new token's evolved flag is true.
C10_EvolutionRecordEvolved ==
    [][\A a \in Senders, t \in TokenIds, st \in EvolveStatInputs, u \in UriInputs :
          (lastTx'.ok /\ tokenIds' # tokenIds /\ EvolveCharacter(a, t, st, u)) =>
              EvolutionWrites(t, st, TRUE)]_vars

\* the token created by an evolution in the second season
C10_Witness ==
    \E t \in TokenIds, n \in TokenIds :
        /\ n = tokenIds
        /\ n # t
        /\ lastTx.ok
        /\ lastTx.ret = n
        /\ [name |-> "CharacterEvolved", tokenId |-> t, value |-> n] \in lastTx.events
        /\ characters[n].seasonId = 2
        /\ characters[n].level = 1

(***************************************************************************)
(* Properties of the gameplay path, checked under GameSpec                 *)
(***************************************************************************)
\* the step raised the token's ledger experience by x and returned a
\* transaction reference
GrantReachedLedger(t, x) ==
    /\ characters'[t].experience = characters[t].experience + x
    /\ game'.ok
    /\ game'.txRef # NoTx

\* C8: when a gameplay action grants experience to an existing token (a
\* CharacterService.gainExperience call, a quest action that ends in success
\* or partial, a combat victory), a gainExperience transaction raises the
\* token's ledger experience by the granted amount and a transaction
\* reference is returned.
C8_GrantReachesLedger ==
    [][\A t \in TokenIds :
          Exists(t) =>
              /\ \A x \in QuestExperience :
                     GainExperience(t, x) => GrantReachedLedger(t, x)
              /\ \A o \in {"success", "partial"}, x \in QuestExperience :
                     ProcessQuestAction(t, o, x) => GrantReachedLedger(t, x)
              /\ \A e \in EnemyTypes, r \in CombatRounds :
                     ProcessCombatAction(t, e, r, TRUE, TRUE) =>
                         GrantReachedLedger(t, CalculateCombatExperience(e, r))]_vars

(***************************************************************************)
(* Evolution is one-way, checked under ContractSpec                        *)
(***************************************************************************)
\* C11: the evolved flag of a token never goes from true back to false, and
\* a token is the source of at most one successful evolution: an evolution
\* takes a source whose flag is false and sets it, and every later
\* evolveCharacter on that source fails and leaves the ledger as it was.
C11_EvolvedOneWay ==
    /\ [](\A t \in retired : Exists(t) /\ characters[t].evolved)
    /\ [][/\ \A t \in TokenIds : characters[t].evolved => characters'[t].evolved
          /\ \A t \in retired' \ retired :
                 ~characters[t].evolved /\ characters'[t].evolved
          /\ \A t \in retired, st \in EvolveStatInputs, u \in UriInputs :
                 EvolveCharacter(ContractOwner, t, st, u) =>
                     /\ ~lastTx'.ok
                     /\ UNCHANGED ledgerVars]_vars

\* a source token that was evolved, and whose second evolution was refused
C11_Witness ==
    \E t \in retired :
        /\ characters[t].evolved
        /\ ~lastTx.ok
        /\ lastTx.error = "Character already evolved"


(***************************************************************************)
(* Retired tokens, checked under RetirementSpec                            *)
(***************************************************************************)
\* C12: once a token has been retired by evolution (it was the source of a
\* successful evolveCharacter), no later operation changes its experience
\* or its level.
C12_RetiredFrozen ==
    [][\A t \in retired :
          /\ characters'[t].experience = characters[t].experience
          /\ characters'[t].level = characters[t].level]_vars


(***************************************************************************)
(* Power, checked under ContractSpec                                       *)
(***************************************************************************)
\* the sum of the six attributes of a record
AttributeSum(r) ==
    r.strength + r.dexterity + r.constitution + r.intelligence + r.wisdom
    + r.charisma

\* the step is a mined setSeasonalPower: of the contract's transactions it is
\* the only one whose receipt holds no event
SeasonalPowerSet == lastTx'.ok /\ lastTx'.events = NoEvents

\* C13: in every reachable state calculatePower(token) returns (sum of the
\* six attributes) * level * (2 if evolved else 1) + the bonus stored for the
\* token in the current season, computed from the state at the query; that
\* bonus is 0 unless a setSeasonalPower was applied to the token during the
\* current season: no bonus is stored for a season to come, a bonus changes
\* only by a setSeasonalPower in the season it is stored for, and a new
\* season starts with bonus 0 for every token.
C13_PowerFormula ==
    /\ [](\A t \in TokenIds :
            /\ CalculatePower(t).ok
            /\ CalculatePower(t).value =
                   AttributeSum(characters[t]) * characters[t].level
                       * (IF characters[t].evolved THEN 2 ELSE 1)
                   + seasonalPower[t][currentSeason]
            /\ \A s \in Seasons : s > currentSeason => seasonalPower[t][s] = 0)
    /\ [][\A t \in TokenIds :
            /\ \A s \in Seasons :
                   seasonalPower'[t][s] # seasonalPower[t][s] =>
                       /\ SeasonalPowerSet
                       /\ s = currentSeason
                       /\ currentSeason' = currentSeason
            /\ currentSeason' # currentSeason =>
                   seasonalPower'[t][currentSeason'] = 0]_vars

\* an evolved token above level 1 that holds a bonus in a later season
C13_Witness ==
    \E t \in TokenIds :
        /\ Exists(t)
        /\ characters[t].evolved
        /\ characters[t].level > 1
        /\ currentSeason > 1
        /\ seasonalPower[t][currentSeason] > 0
        /\ CalculatePower(t).value > 2 * AttributeSum(characters[t])


\* the levels a record can hold within the experience range of the model
Levels == 1..LevelFor(UintMax)

\* the record with another level, and with another evolved flag
AtLevel(r, l) == [r EXCEPT !.level = l]
AsEvolved(r, e) == [r EXCEPT !.evolved = e]

\* with attributes and seasonal bonus held fixed, power does not decrease
\* when the level grows
PowerMonotonicInLevel(r, bonus) ==
    \A l \in Levels, k \in Levels :
        l <= k => PowerOf(AtLevel(r, l), bonus).value
                      <= PowerOf(AtLevel(r, k), bonus).value

\* C14 as stated: for the record and the current bonus of every token, power
\* is non-decreasing in the level, and the power with evolved = true is
\* exactly twice the power with evolved = false.
C14_PowerDoubles ==
    \A t \in TokenIds :
        Exists(t) =>
            LET r == characters[t]
                bonus == seasonalPower[t][currentSeason] IN
            /\ PowerMonotonicInLevel(r, bonus)
            /\ PowerOf(AsEvolved(r, TRUE), bonus).value
                   = 2 * PowerOf(AsEvolved(r, FALSE), bonus).value

\* C14, amended: power is non-decreasing in the level, and the power with
\* evolved = true exceeds the power with evolved = false by attributes *
\* level: the part before the seasonal bonus doubles, so the whole power is
\* exactly twice only when the seasonal bonus is 0.
C14_BasePowerDoubles ==
    \A t \in TokenIds :
        Exists(t) =>
            LET r == characters[t]
                bonus == seasonalPower[t][currentSeason] IN
            /\ PowerMonotonicInLevel(r, bonus)
            /\ PowerOf(AsEvolved(r, TRUE), bonus).value - bonus
                   = 2 * (PowerOf(AsEvolved(r, FALSE), bonus).value - bonus)
            /\ bonus = 0 =>
                   PowerOf(AsEvolved(r, TRUE), bonus).value
                       = 2 * PowerOf(AsEvolved(r, FALSE), bonus).value

\* a token above level 1 that holds a seasonal bonus in the current season
C14_Witness ==
    \E t \in TokenIds :
        /\ Exists(t)
        /\ characters[t].level > 1
        /\ seasonalPower[t][currentSeason] > 0
        /\ CalculatePower(t).ok


(***************************************************************************)
(* generateBaseStats, checked under StatsSpec                              *)
(***************************************************************************)
\* the ceiling the table holds for an attribute of an archetype
Ceiling(characterClass, stat) == maxStats[characterClass][stat]

\* C15: for every archetype generateBaseStats returns exactly the six
\* attributes, each an integer between 10 and the archetype's ceiling for
\* it, where a ceiling below 10 counts as 10 (the attribute is then exactly
\* 10); no attribute is below 10.
C15_StatsInRange ==
    baseStats[1] # NoStats =>
        LET k == req[1].characterClass IN
        /\ DOMAIN baseStats[1] = Range(StatNames)
        /\ Cardinality(DOMAIN baseStats[1]) = 6
        /\ \A stat \in DOMAIN baseStats[1] :
               /\ baseStats[1][stat] \in Int
               /\ baseStats[1][stat] >= 10
               /\ Ceiling(k, stat) >= 10 => baseStats[1][stat] <= Ceiling(k, stat)
               /\ Ceiling(k, stat) < 10 => baseStats[1][stat] = 10

\* a warrior rolled at the ceiling of strength and at the floor of dexterity,
\* its intelligence (ceiling 8) at 10
C15_Witness ==
    /\ req[1].characterClass = "warrior"
    /\ baseStats[1] # NoStats
    /\ baseStats[1].strength = 16
    /\ baseStats[1].dexterity = 10
    /\ baseStats[1].intelligence = 10


(***************************************************************************)
(* Metadata and mint arguments of createCharacter, checked under Spec      *)
(***************************************************************************)
TraitOrder == <<"Class", "Level", "Strength", "Dexterity", "Constitution",
                "Intelligence", "Wisdom", "Charisma", "Personality">>

\* C16: the metadata a createCharacter call builds and publishes lists its
\* attributes in the order Class, Level (= 1), Strength, Dexterity,
\* Constitution, Intelligence, Wisdom, Charisma, Personality, and the six
\* values it lists are, in that order, the attribute array the call's mint
\* stores, minted to the call's owner address with the metadata URI that
\* the call's publish returned.
C16_MetadataMatchesMint ==
    \A c \in Calls :
        "metadataPublish" \in Range(callLog[c]) =>
            LET a == metadata[c].attributes IN
            /\ Len(a) = Len(TraitOrder)
            /\ \A i \in 1..Len(a) : a[i][1] = TraitOrder[i]
            /\ a[1][2] = req[c].characterClass
            /\ a[2][2] = 1
            /\ \A i \in 1..6 : a[i + 2][2] = StatsArray(baseStats[c])[i]
            /\ pc[c] = "done" =>
                   /\ StatsArray(characters[mintedId[c]]) = [i \in 1..6 |-> a[i + 2][2]]
                   /\ OwnerOf(mintedId[c]) = req[c].playerAddress
                   /\ metadataUri[c] = ContentUri("metadata", c)
                   /\ metadataUri[c] \in pinned
                   /\ tokenURIs[mintedId[c]] = metadataUri[c]

\* a call that minted, with metadata whose attributes are not all equal
C16_Witness ==
    \E c \in Calls :
        /\ pc[c] = "done"
        /\ mintedId[c] # 0
        /\ metadata[c].attributes[3][2] # metadata[c].attributes[4][2]
        /\ metadata[c].attributes[9][2] = "bold"


(***************************************************************************)
(* Retries and compensation of createCharacter, checked under Spec         *)
(***************************************************************************)
\* C17: within one createCharacter call every collaborator operation is
\* invoked at most once; a step that failed is not invoked again.
C17_NoRetry ==
    \A c \in Calls :
        \A i \in 1..Len(callLog[c]), j \in 1..Len(callLog[c]) :
            i # j => callLog[c][i] # callLog[c][j]

\* a call whose mint failed after four stages that returned
C17_Witness ==
    \E c \in Calls :
        /\ pc[c] = "failed"
        /\ callLog[c] = StageOrder
        /\ Len(succeeded[c]) = 4

\* C18: a createCharacter that fails after its image was published performs
\* no compensation: pinned content is never unpinned, so the published image
\* (and the metadata, when the mint fails) stays pinned; and no call reuses
\* an image URI of another call: the image a call puts into its metadata is
\* the one this call published itself.
C18_NoCompensation ==
    /\ [](\A c \in Calls :
            /\ (pc[c] = "failed" /\ "imagePublish" \in Range(succeeded[c])) =>
                   imageUri[c] \in pinned
            /\ (pc[c] = "failed" /\ "metadataPublish" \in Range(succeeded[c])) =>
                   metadataUri[c] \in pinned
            /\ metadata[c] # NoMetadata =>
                   /\ "imagePublish" \in Range(succeeded[c])
                   /\ metadata[c].image = imageUri[c]
                   /\ \A d \in Calls \ {c} : metadata[c].image # imageUri[d])
    /\ [][pinned \subseteq pinned']_vars

\* a call that failed at the metadata publish or the mint, its image still
\* pinned, and another call for the same request that published an image of
\* its own
C18_Witness ==
    \E c \in Calls, d \in Calls :
        /\ c # d
        /\ pc[c] = "failed"
        /\ "imagePublish" \in Range(succeeded[c])
        /\ imageUri[c] \in pinned
        /\ req[d] = req[c]
        /\ imageUri[d] \in pinned
        /\ imageUri[d] # imageUri[c]


(***************************************************************************)
(* Token identifiers and the season counter, checked under ContractSpec    *)
(***************************************************************************)
\* the transaction of this step was mined and emitted the named event
Emitted(name) ==
    /\ lastTx' # lastTx
    /\ lastTx'.ok
    /\ \E e \in lastTx'.events : e.name = name

\* C19: token ids are assigned strictly increasing and never reused: every
\* successful mint or evolution creates the token whose id is the previous
\* totalSupply + 1, in every reachable state the existing tokens are exactly
\* the ids 1..totalSupply, and no token ever stops existing.
C19_TokenIdsMonotonic ==
    /\ [](\A t \in TokenIds : Exists(t) <=> t <= tokenIds)
    /\ [][/\ tokenIds' >= tokenIds
          /\ \A t \in TokenIds : tokenExists[t] => tokenExists'[t]
          /\ (Emitted("CharacterMinted") \/ Emitted("CharacterEvolved")) =>
                 /\ tokenIds' = tokenIds + 1
                 /\ lastTx'.ret = tokenIds + 1
                 /\ ~tokenExists[tokenIds + 1]
                 /\ tokenExists'[tokenIds + 1]
          /\ tokenIds' # tokenIds =>
                 Emitted("CharacterMinted") \/ Emitted("CharacterEvolved")]_vars

\* a mint followed by an evolution: tokens 1 and 2 exist, 2 evolved from 1
C19_Witness ==
    /\ tokenIds = 2
    /\ Exists(1) /\ Exists(2)
    /\ 1 \in retired
    /\ characters[2].evolved

\* C20: currentSeason changes only through advanceSeason, which increases it
\* by exactly 1; mint, evolveCharacter, gainExperience and setSeasonalPower
\* leave it unchanged, so the season never decreases.
C20_SeasonOnlyAdvances ==
    [][/\ Emitted("SeasonAdvanced") => currentSeason' = currentSeason + 1
       /\ ~Emitted("SeasonAdvanced") => currentSeason' = currentSeason
       /\ currentSeason' >= currentSeason]_vars

\* the season was advanced, and a later transaction of another kind was
\* mined in the new season
C20_Witness ==
    /\ currentSeason = 2
    /\ lastTx.ok
    /\ \E e \in lastTx.events : e.name \in {"CharacterMinted", "ExperienceGained"}


(***************************************************************************)
(* Immutable fields of a record, checked under ContractSpec                *)
(***************************************************************************)
\* C21: after a token is minted, its six attributes and its seasonId never
\* change under any later operation (gainExperience, evolveCharacter on it
\* or on another token, advanceSeason, setSeasonalPower); an evolution
\* writes the new attributes only to the new token.
C21_AttributesImmutable ==
    [][\A t \in TokenIds :
          tokenExists[t] =>
              /\ StatsArray(characters'[t]) = StatsArray(characters[t])
              /\ characters'[t].seasonId = characters[t].seasonId]_vars

\* token 1, minted in season 1 and trained, was evolved into token 2 in
\* season 2: it keeps its attributes and its season, token 2 has the new ones
C21_Witness ==
    /\ Exists(1) /\ Exists(2)
    /\ 1 \in retired
    /\ currentSeason = 2
    /\ characters[1].experience > 0
    /\ characters[1].seasonId = 1
    /\ characters[2].seasonId = 2
    /\ StatsArray(characters[1]) \in StatInputs
    /\ StatsArray(characters[2]) \in EvolveStatInputs


(***************************************************************************)
(* getCharactersByOwner, checked under RegistrySpec                        *)
(***************************************************************************)
\* the ids 1..totalSupply whose owner is now the address, compared
\* case-insensitively, in ascending order
OwnedNow(ownerAddress) ==
    SelectSeq([t \in 1..tokenIds |-> t],
              LAMBDA t : ToLowerCase(owners[t]) = ToLowerCase(ownerAddress))

\* the record of a token as the ledger holds it now
RecordNow(t) == ProcessedCharacter(t, owners[t], characters[t])

\* the matches of the finished call are the tokens the address owns now,
\* each with its record as it is now
ScanAgreesWithLedger ==
    /\ scan.result.total = Len(OwnedNow(scan.ownerAddress))
    /\ scan.characters =
           [i \in 1..Len(OwnedNow(scan.ownerAddress)) |->
                RecordNow(OwnedNow(scan.ownerAddress)[i])]

\* C22: getCharactersByOwner scans the ids 1..totalSupply and
\* reports total = the number of tokens whose current owner equals the
\* address compared case-insensitively, with the full record of each match in
\* ascending id order and no token twice.
C22_ScanMatchesOwnership ==
    scan.pc = "done" => ScanAgreesWithLedger

\* What the call does return: total is the number of matches it found over
\* the ids 1..totalSupply as read at its start, the matches are in strictly
\* ascending id order (no token twice), each carries an owner equal to the
\* address case-insensitively, a token whose read threw is left out; the
\* matches are the tokens the address owns now, with their current records,
\* when no read threw and no transaction was mined while the call ran.
ScanMatchesOwnershipQuiescent ==
    scan.pc = "done" =>
        /\ scan.result.total = Len(scan.characters)
        /\ \A i \in 1..Len(scan.characters) :
               /\ UintFromString(scan.characters[i].tokenId) \in 1..scan.totalSupply
               /\ UintFromString(scan.characters[i].tokenId) \notin scan.skipped
               /\ ToLowerCase(scan.characters[i].owner) = ToLowerCase(scan.ownerAddress)
               /\ \A j \in 1..Len(scan.characters) :
                      i < j => UintFromString(scan.characters[i].tokenId)
                                   < UintFromString(scan.characters[j].tokenId)
        /\ (~scan.mined /\ scan.skipped = {}) => ScanAgreesWithLedger

\* a call for "0xa" over two tokens, the first of "0xB" and the second of
\* "0xA", with no transaction and no failed read in between: one match,
\* token 2
ScanQuiescentWitness ==
    /\ scan.pc = "done"
    /\ ~scan.mined
    /\ scan.skipped = {}
    /\ scan.ownerAddress = "0xa"
    /\ scan.totalSupply = 2
    /\ owners[1] = "0xB"
    /\ owners[2] = "0xA"
    /\ characters[2].experience > 0
    /\ scan.result.total = 1
    /\ scan.characters[1].tokenId = NumberToString(2)

\* C23: pagination is applied after filtering: for page >= 1 and limit >= 1
\* the call returns exactly the matches at positions (page-1)*limit ..
\* page*limit-1 of the ascending filtered list (at most limit records, none
\* when the page is past the end), and total is the size of the whole
\* filtered list whatever the page.
C23_PaginationAfterFilter ==
    (scan.pc = "done" /\ scan.page >= 1 /\ scan.limit >= 1) =>
        LET found == scan.characters
            start == (scan.page - 1) * scan.limit
            count == IF start >= Len(found) THEN 0
                     ELSE Min(scan.limit, Len(found) - start) IN
        /\ scan.result.total = Len(found)
        /\ Len(scan.result.characters) = count
        /\ \A i \in 1..count : scan.result.characters[i] = found[start + i]

\* two matches, page 2 of limit 1: total 2 and the second match alone
C23_Witness ==
    /\ scan.pc = "done"
    /\ scan.page = 2
    /\ scan.limit = 1
    /\ Len(scan.characters) = 2
    /\ scan.result.total = 2
    /\ scan.result.characters = <<scan.characters[2]>>


(***************************************************************************)
(* Token ids that were never minted, checked under ContractSpec            *)
(***************************************************************************)
NotFound == "Character does not exist"

\* the transaction of this step reverted as not found and wrote nothing
RevertedNotFound ==
    /\ ~lastTx'.ok
    /\ lastTx'.error = NotFound
    /\ UNCHANGED ledgerVars

\* the three transactions that take a token id revert as not found on an
\* id that was never minted, and getCharacter reverts the same way
OthersNotFound ==
    /\ [](\A t \in TokenIds :
             ~Exists(t) => /\ ~ContractGetCharacter(t).ok
                           /\ ContractGetCharacter(t).error = NotFound)
    /\ [][\A t \in TokenIds :
             ~Exists(t) =>
                 /\ \A x \in XpAmounts :
                        LedgerGainExperience(ContractOwner, t, x) => RevertedNotFound
                 /\ \A st \in EvolveStatInputs, u \in UriInputs :
                        EvolveCharacter(ContractOwner, t, st, u) => RevertedNotFound
                 /\ \A p \in PowerInputs :
                        SetSeasonalPower(ContractOwner, t, p) => RevertedNotFound]_vars

\* C24: every ledger operation that takes a token id (getCharacter,
\* gainExperience, evolveCharacter, setSeasonalPower, calculatePower) fails
\* with a not-found error when the id was never minted, and leaves the
\* ledger state unchanged.
C24_NotFound ==
    /\ OthersNotFound
    /\ [](\A t \in TokenIds :
             ~Exists(t) => /\ ~CalculatePower(t).ok
                           /\ CalculatePower(t).error = NotFound)


(***************************************************************************)
(* Experience beyond the representable range, checked under ContractSpec   *)
(***************************************************************************)
\* C25: a gainExperience whose amount would push a token's experience
\* beyond the representable range fails as an error and leaves the token's
\* experience and level unchanged; the stored experience never wraps around
\* to a smaller value.
C25_OverflowReverts ==
    /\ [](\A t \in TokenIds : characters[t].experience \in 0..UintMax)
    /\ [][\A t \in TokenIds :
             /\ characters'[t].experience >= characters[t].experience
             /\ \A x \in XpAmounts :
                    (/\ Exists(t)
                     /\ characters[t].experience + x > UintMax
                     /\ LedgerGainExperience(ContractOwner, t, x)) =>
                        /\ ~lastTx'.ok
                        /\ lastTx'.error = "Panic(0x11)"
                        /\ characters'[t].experience = characters[t].experience
                        /\ characters'[t].level = characters[t].level]_vars

\* a grant that was refused because it would overflow, the token keeping
\* the experience and the level it had
C25_Witness ==
    \E t \in TokenIds :
        /\ Exists(t)
        /\ ~lastTx.ok
        /\ lastTx.error = "Panic(0x11)"
        /\ characters[t].experience = 5000
        /\ characters[t].level = 6


(***************************************************************************)
(* Two createCharacter calls in flight, checked under Spec                 *)
(***************************************************************************)
\* C26: for any interleaving of two concurrent createCharacter calls, the
\* calls share no mutable state: each call's mint carries the attributes and
\* the metadata URI produced by that same call, the attributes of a call are
\* rolled under the ceilings of its own archetype whatever the other call
\* does, and two successful mints create two distinct token ids.
C26_CallsIndependent ==
    \A c \in Calls :
        /\ baseStats[c] # NoStats =>
               \E draws \in RandomDraws :
                   baseStats[c] = GenerateBaseStats(req[c].characterClass, draws)
        /\ pc[c] = "done" =>
               /\ StatsArray(characters[mintedId[c]]) = StatsArray(baseStats[c])
               /\ tokenURIs[mintedId[c]] = metadataUri[c]
               /\ metadataUri[c] = ContentUri("metadata", c)
               /\ \A d \in Calls \ {c} :
                      pc[d] = "done" => mintedId[d] # mintedId[c]

\* two calls for different archetypes, both minted, the second call's mint
\* mined before the first call's
C26_Witness ==
    /\ pc[1] = "done" /\ pc[2] = "done"
    /\ req[1].characterClass # req[2].characterClass
    /\ baseStats[1] # baseStats[2]
    /\ mintedId[2] = 1
    /\ mintedId[1] = 2


(***************************************************************************)
(* Request validation, checked under ControllerSpec                        *)
(***************************************************************************)
Archetypes == {"warrior", "mage", "rogue", "cleric", "bard"}

\* the body lacks playerAddress or characterClass, or names no archetype
Malformed(body) ==
    \/ body.playerAddress \in {Undefined, ""}
    \/ body.characterClass \in {Undefined, ""}
    \/ body.characterClass \notin Archetypes

\* C27: a create-character request with a missing playerAddress, a missing
\* characterClass, or a characterClass outside {warrior, mage, rogue, cleric,
\* bard} is rejected with status 400 before the saga starts: no generation,
\* publish or mint call is made for it.
C27_RejectedBeforeSaga ==
    \A c \in Calls :
        (http[c].route # "" /\ Malformed(http[c].body)) =>
            /\ http[c].status = 400
            /\ pc[c] = "idle"
            /\ req[c] = NoRequest
            /\ callLog[c] = <<>>
            /\ mintedId[c] = 0

\* a request for the class "paladin" answered with 400 next to a complete
\* request that was answered with 201 after its mint
C27_Witness ==
    \E c \in Calls, d \in Calls :
        /\ http[c].status = 400
        /\ http[c].body.characterClass = "paladin"
        /\ callLog[c] = <<>>
        /\ http[d].status = 201
        /\ callLog[d] = StageOrder
        /\ tokenIds = 1


(***************************************************************************)
(* The exclusive writer, checked under AccessSpec                          *)
(***************************************************************************)
\* the transaction of this step was refused as not sent by the owner, and
\* wrote nothing
RefusedUnauthorized ==
    /\ ~lastTx'.ok
    /\ lastTx'.error = "OwnableUnauthorizedAccount"
    /\ UNCHANGED ledgerVars

\* this step is one of the five operations, sent by the contract owner
OwnerOperation ==
    \/ \E p \in MintTo, st \in StatInputs, u \in UriInputs :
           Mint(ContractOwner, p, st, u)
    \/ \E t \in TokenIds, st \in EvolveStatInputs, u \in UriInputs :
           EvolveCharacter(ContractOwner, t, st, u)
    \/ \E t \in TokenIds, x \in XpAmounts :
           LedgerGainExperience(ContractOwner, t, x)
    \/ AdvanceSeason(ContractOwner)
    \/ \E t \in PowerTokens, p \in PowerInputs :
           SetSeasonalPower(ContractOwner, t, p)

\* C28: only the contract owner can change ledger state through mint,
\* evolveCharacter, gainExperience, advanceSeason and setSeasonalPower: a call
\* to any of them by any other account fails and leaves records, token
\* counter, season and seasonal bonuses unchanged.
C28_OnlyOwnerWrites ==
    [][/\ \A a \in Senders \ {ContractOwner} :
              /\ \A p \in MintTo, st \in StatInputs, u \in UriInputs :
                     Mint(a, p, st, u) => RefusedUnauthorized
              /\ \A t \in TokenIds, st \in EvolveStatInputs, u \in UriInputs :
                     EvolveCharacter(a, t, st, u) => RefusedUnauthorized
              /\ \A t \in TokenIds, x \in XpAmounts :
                     LedgerGainExperience(a, t, x) => RefusedUnauthorized
              /\ AdvanceSeason(a) => RefusedUnauthorized
              /\ \A t \in PowerTokens, p \in PowerInputs :
                     SetSeasonalPower(a, t, p) => RefusedUnauthorized
       /\ <<characters, tokenIds, tokenExists, currentSeason, seasonalPower>>'
              # <<characters, tokenIds, tokenExists, currentSeason, seasonalPower>>
              => OwnerOperation]_vars

\* an account that holds a trained token of level 5 and is not the contract
\* owner was just refused, in the second season
C28_Witness ==
    /\ ~lastTx.ok
    /\ lastTx.error = "OwnableUnauthorizedAccount"
    /\ Exists(1)
    /\ owners[1] = "0xA"
    /\ characters[1].level >= EVOLUTION_THRESHOLD
    /\ ~characters[1].evolved
    /\ currentSeason = 2
    /\ seasonalPower[1][2] = 7


(***************************************************************************)
(* The per-owner index, checked under LedgerSpec                           *)
(***************************************************************************)
\* the ids the registry's ownerOf scan finds for an account
OwnedBy(player) == {t \in TokenIds : Exists(t) /\ OwnerOf(t) = player}

\* C29: in every reachable state, including after ERC721 transfers, the
\* per-owner index agrees with ownership: getCharactersByPlayer(p) returns
\* exactly the ids of the tokens whose current owner is p, the same set the
\* registry's ownerOf scan finds for p.
C29_IndexMatchesOwnership ==
    \A player \in Accounts :
        /\ Range(GetCharactersByPlayer(player)) = OwnedBy(player)
        /\ Len(GetCharactersByPlayer(player)) = Cardinality(OwnedBy(player))


(***************************************************************************)
(* Container.initialize, checked under ContainerSpec                       *)
(***************************************************************************)
\* a call made after the state left UNINITIALIZED builds nothing, and a
\* failed call leaves the state as it was
InitializeGuarded ==
    /\ [][\A i \in Calls :
             /\ (container.state # UNINITIALIZED
                 /\ container.call[i].pc = "idle"
                 /\ container'.call[i].pc # "idle") =>
                    /\ container'.call[i].pc = "returned"
                    /\ container'.wallets = container.wallets
                    /\ container'.built = container.built
                    /\ container'.registered = container.registered
             /\ (container.call[i].pc # "failed"
                 /\ container'.call[i].pc = "failed") =>
                    container'.state = container.state]_vars
    /\ []((\A i \in Calls : container.call[i].pc \in {"idle", "failed"}) =>
              container.state = UNINITIALIZED)

\* C30: Container.initialize constructs and registers the services at most
\* once per process: any call made after the state left UNINITIALIZED returns
\* without constructing anything, a failed initialization leaves the state
\* UNINITIALIZED, and this holds also when two initialize calls are in flight
\* concurrently (the second started before the first finished its awaited
\* wallet initialization).
C30_InitializeOnce ==
    /\ [](container.built <= 1)
    /\ InitializeGuarded

====
